---- MODULE Spec2Model ----
(***************************************************************************)
(* StatefulTable of ratatui-helpers (src/src/stateful_table.rs): the row   *)
(* vector, the separated values, the displayed rows, the row and column    *)
(* selection, the sort direction of the selected column and the geometry   *)
(* used to map pointer positions back to rows and columns.                 *)
(*                                                                         *)
(* Indices are 0-based as in the source; TLA+ sequences are 1-based, so    *)
(* element i of a vector v is v[i + 1].  Strings shown in cells are        *)
(* modelled by small integers; their display width is one cell.            *)
(***************************************************************************)
EXTENDS Integers, Sequences, FiniteSets, TLC

\* ---------------------------------------------------------------- bounds
MaxRows == 2        \* longest row vector handed to the constructor
MaxIdx == 2         \* largest index passed to select_absolute
MaxColIdx == 3      \* largest index passed to select_absolute_col
MaxOffset == 1      \* largest |offset| passed to select_relative_col
MaxRowOffset == 2   \* largest |offset| passed to select_relative
MaxShortcuts == 2   \* longest key map handed to get_command
MaxOrigin == 0      \* largest x = y of the top-left corner handed to draw
AreaHeight == 2     \* height of the areas handed to draw
ColumnSpacing == 1  \* TableStyle::column_spacing of the tables modelled
MaxTrail == 4       \* directions remembered in trail
MaxClicks == 3      \* header clicks counted in clicks
MaxPageRows == 3    \* rows of the tables paged through
MaxRowHeight == 2   \* lines of a row of the tables paged through
MaxPageHeight == 5  \* height of the areas the tables paged through are drawn in
MaxViews == 3       \* views on the controller's stack
MaxShows == 3       \* messages shown on one status line

\* Option::None of the two optional selections (Some(i) is i itself)
None == -1

\* ------------------------------------------------------------- orderings
Ordering == {"Less", "Equal", "Greater"}

\* usize/str comparison of the row type's keys
Cmp(a, b) == IF a < b THEN "Less" ELSE IF a > b THEN "Greater" ELSE "Equal"

Min(a, b) == IF a < b THEN a ELSE b
Max(a, b) == IF a > b THEN a ELSE b

\* usize::clamp(lo, hi) and the saturating arithmetic of usize
Clamp(x, lo, hi) == IF x < lo THEN lo ELSE IF x > hi THEN hi ELSE x
SaturatingSub(a, b) == IF a < b THEN 0 ELSE a - b

\* usize::MAX.  The usize of the model is 31 bits wide; the code only
\* compares the wrapped value and clamps it, so the width does not matter.
UsizeMax == 2147483647
\* a - b of usize and of u16 in a build without overflow checks
WrappingSub(a, b) == IF a >= b THEN a - b ELSE UsizeMax - (b - a - 1)
WrapU16(x) == x % 65536

\* ------------------------------------------------- the row type (Tabular)
\* A row type with two sortable columns: a name and a group.  Its value is
\* the name; its content is the pair of strings shown in the two columns.
DataRows ==
    {[name |-> 1, grp |-> 1], [name |-> 2, grp |-> 1], [name |-> 1, grp |-> 2]}

DataContent(d) == <<d.name, d.grp>>
DataValue(d) == d.name
DataCmpByCol(a, b, col) ==
    CASE col = 0 -> Cmp(a.name, b.name)
      [] col = 1 -> Cmp(a.grp, b.grp)
      [] OTHER -> "Equal"
\* column_names(): "Id", "G" (lengths 2 and 1); column_constraints():
\* Length, Fill
DataNameLens == <<2, 1>>
DataConstraintKinds == <<"Length", "Fill">>

\* ----------------------------------------------------------- IndexedRow
\* IndexedRow::from: every row paired with its position in the vector
IndexedFrom(rs) == [i \in 1..Len(rs) |-> [idx |-> i - 1, data |-> rs[i]]]

IndexedContent(r) == <<r.idx>> \o DataContent(r.data)
IndexedCmpByCol(a, b, col) ==
    IF col = 0 THEN "Equal" ELSE DataCmpByCol(a.data, b.data, col - 1)

\* The trait methods of the table's row type T: T is IndexedRow<Data> in an
\* index-wrapped table and Data otherwise.
Content(r, ix) == IF ix THEN IndexedContent(r) ELSE DataContent(r)
Value(r, ix) == IF ix THEN DataValue(r.data) ELSE DataValue(r)
Inner(r, ix) == IF ix THEN r.data ELSE r
CmpByCol(a, b, col, ix) ==
    IF ix THEN IndexedCmpByCol(a, b, col) ELSE DataCmpByCol(a, b, col)
NameLens(ix) == IF ix THEN <<1>> \o DataNameLens ELSE DataNameLens
ConstraintKinds(ix) ==
    IF ix THEN <<"Length">> \o DataConstraintKinds ELSE DataConstraintKinds
ColumnCount(ix) == Len(ConstraintKinds(ix))

\* -------------------------------------------------------------- sorting
\* PairCmp without the swap of the operands for Greater (mutant)
PairCmpNoSwap(a, b, ord, col, ix) == CmpByCol(a[1], b[1], col, ix)

\* The closure handed to sort_by by sort_rows: the rows of two (row, value)
\* pairs compared under the column, operands swapped for Greater.
PairCmp(a, b, ord, col, ix) ==
    IF ord = "Greater" THEN CmpByCol(b[1], a[1], col, ix)
                       ELSE CmpByCol(a[1], b[1], col, ix)

\* slice::sort_by: a stable sort.  The last element is inserted behind
\* every element it is not less than.
RECURSIVE SortBy(_, _, _, _)
SortBy(s, ord, col, ix) ==
    IF Len(s) <= 1 THEN s
    ELSE LET init == SortBy(SubSeq(s, 1, Len(s) - 1), ord, col, ix)
             x == s[Len(s)]
             k == Cardinality({i \in 1..Len(init) :
                                 PairCmp(x, init[i], ord, col, ix) # "Less"})
         IN SubSeq(init, 1, k) \o <<x>> \o SubSeq(init, k + 1, Len(init))

Zip(a, b) == [i \in 1..Min(Len(a), Len(b)) |-> <<a[i], b[i]>>]
Reverse(s) == [i \in 1..Len(s) |-> s[Len(s) + 1 - i]]

\* SortPairs with descending done as the reverse of ascending (mutant)
SortPairsReversing(pairs, ord, col, ix) ==
    CASE ord = "Less" -> SortBy(pairs, "Less", col, ix)
      [] ord = "Greater" -> Reverse(SortBy(pairs, "Less", col, ix))
      [] OTHER -> pairs

\* SortPairs sorting ascending under Equal too (mutant)
SortPairsAlways(pairs, ord, col, ix) ==
    CASE ord = "Greater" -> SortBy(pairs, "Greater", col, ix)
      [] OTHER -> SortBy(pairs, "Less", col, ix)

\* the match on selected_col_ord in sort_rows
SortPairs(pairs, ord, col, ix) ==
    CASE ord = "Less" -> SortBy(pairs, "Less", col, ix)
      [] ord = "Greater" -> SortBy(pairs, "Greater", col, ix)
      [] OTHER -> pairs

\* ------------------------------------------------------- display pieces
\* build_rows: one displayed row per element, its cells the content
BuildRows(rs, ix) == [i \in 1..Len(rs) |-> Content(rs[i], ix)]

\* RebuildRows without the renumbering of an index-wrapped table (mutant)
RebuildRowsKeepingIdx(sorted, ix) == BuildRows(sorted, ix)

\* The rows sort_rows hands to the widget: in an index-wrapped table the
\* sorted rows are unwrapped and wrapped again, which renumbers them.
RebuildRows(sorted, ix) ==
    IF ix THEN BuildRows(IndexedFrom([i \in 1..Len(sorted) |-> Inner(sorted[i], TRUE)]), TRUE)
          ELSE BuildRows(sorted, FALSE)

\* format_column_name: the marker appended to the selected column's name
FormatColumnName(ord) ==
    CASE ord = "Less" -> "^" [] ord = "Greater" -> "v" [] OTHER -> "-"

\* build_header: the marker of every header cell ("" for a plain name)
BuildHeader(sel_col, ord, ix) ==
    [i \in 1..ColumnCount(ix) |-> IF sel_col = i - 1 THEN FormatColumnName(ord) ELSE ""]

\* ------------------------------------------------------------- geometry
StrLen(s) == 1      \* every cell string modelled is one character wide

SetMax(S) == CHOOSE m \in S : \A x \in S : x <= m
RECURSIVE Sum(_)
Sum(s) == IF Len(s) = 0 THEN 0 ELSE s[1] + Sum(Tail(s))

\* columns_max_widths: per column, the widest of the contents and the name
ColumnsMaxWidths(rs, ix) ==
    [c \in 1..ColumnCount(ix) |->
        SetMax({StrLen(Content(rs[i], ix)[c]) : i \in 1..Len(rs)} \cup {NameLens(ix)[c]})]

\* build_table: the column constraints interleaved with the gaps
ColConstraints(rs, ix) ==
    LET w == ColumnsMaxWidths(rs, ix)
        k == Len(w)
    IN [i \in 1..(2 * k - 1) |->
          IF i % 2 = 1 THEN [kind |-> ConstraintKinds(ix)[(i + 1) \div 2], v |-> w[(i + 1) \div 2]]
                       ELSE [kind |-> "Length", v |-> ColumnSpacing]]

InnerWidth(rs, ix) ==
    LET w == ColumnsMaxWidths(rs, ix) IN Sum(w) + ColumnSpacing * (Len(w) - 1)

DefaultRect == [x |-> 0, y |-> 0, width |-> 0, height |-> 0]

\* Contains with the far edges taken as part of the rectangle (mutant)
ContainsUpToEdge(r, pos) ==
    /\ pos.x >= r.x /\ pos.x <= r.x + r.width
    /\ pos.y >= r.y /\ pos.y <= r.y + r.height

\* Rect::contains
Contains(r, pos) ==
    /\ pos.x >= r.x /\ pos.x < r.x + r.width
    /\ pos.y >= r.y /\ pos.y < r.y + r.height

\* Layout::split of a horizontal layout whose constraints are Length(v) and
\* Fill: every Length takes v cells, the Fill takes what the Lengths leave,
\* and nothing reaches beyond the area.  SplitFrom lays out the constraints
\* from the i-th on, the first of them starting at x.
RECURSIVE LengthsOf(_)
LengthsOf(cons) ==
    IF Len(cons) = 0 THEN 0
    ELSE (IF cons[1].kind = "Length" THEN cons[1].v ELSE 0) + LengthsOf(Tail(cons))
RECURSIVE SplitFrom(_, _, _, _, _)
SplitFrom(cons, i, x, fill, r) ==
    IF i > Len(cons) THEN <<>>
    ELSE LET want == IF cons[i].kind = "Length" THEN cons[i].v ELSE fill
             w == Min(want, r.x + r.width - x)
         IN <<[x |-> x, y |-> r.y, width |-> w, height |-> r.height]>>
            \o SplitFrom(cons, i + 1, x + w, fill, r)
Split(r, cons) == SplitFrom(cons, 1, r.x, Max(0, r.width - LengthsOf(cons)), r)

\* --------------------------------------------------------------- key map
\* Key events are named by their key (no modifiers are bound); "x" is a key
\* no shortcut of the table binds.  A shortcut is a command with the list of
\* the key events bound to it; Option::None of a command is "None".
KeyEvents == {"Down", "j", "Up", "k", "Tab", "BackTab", "PageDown", "PageUp", "Space", "x"}

\* TableKeyMap::default
TableKeyMapDefault ==
    << [cmd |-> "GoDown", chords |-> <<"Down", "j">>],
       [cmd |-> "GoUp", chords |-> <<"Up", "k">>],
       [cmd |-> "GoDownCycle", chords |-> <<"Tab">>],
       [cmd |-> "GoUpCycle", chords |-> <<"BackTab">>],
       [cmd |-> "GoPageDown", chords |-> <<"PageDown">>],
       [cmd |-> "GoPageUp", chords |-> <<"PageUp">>],
       [cmd |-> "GoHalfPageDown", chords |-> <<"Space">> ] >>

\* Vec::contains
VecContains(v, e) == \E j \in 1..Len(v) : v[j] = e

\* GetCommand returning the last shortcut that binds the event (mutant)
GetCommandLastMatch(km, ev) ==
    LET hits == {i \in 1..Len(km) : VecContains(km[i].chords, ev)}
    IN IF hits = {} THEN "None" ELSE km[CHOOSE i \in hits : \A j \in hits : j <= i].cmd

\* KeyMap::get_command: find the first shortcut whose keys contain the event
RECURSIVE FindFrom(_, _, _)
FindFrom(km, i, ev) ==
    IF i > Len(km) THEN "None"
    ELSE IF VecContains(km[i].chords, ev) THEN km[i].cmd
    ELSE FindFrom(km, i + 1, ev)
GetCommand(km, ev) == FindFrom(km, 1, ev)

\* ---------------------------------------------------------------- state
VARIABLES
    data,               \* Vec<T>: the rows, in the order given to the constructor
    values,             \* Vec<T::Value>
    rows,               \* the rows held by the Table widget (the cells of each row)
    header,             \* the header held by the Table widget (the marker of each cell)
    selected,           \* TableState::selected
    selected_column,    \* TableState::selected_column
    offset,             \* TableState::offset
    selected_col_ord,   \* the sort direction
    area,               \* the rectangle of the last draw
    padding,            \* header line plus the block's padding
    col_constraints,    \* the interleaved column and gap constraints
    inner_width,        \* the columns' widths plus the gaps between them
    indexed,            \* whether T is IndexedRow
    keymap,             \* the shortcuts of the key map, in declaration order
    panic,              \* whether an operation has panicked
    last,               \* the operation that led to this state: its name (op); the index
                        \* or offset it was given, or the header slice it hit (arg); for
                        \* a column selection whether the column was the selected one
                        \* ("same"), another one ("other") or the first ("none") (from),
                        \* with the direction before it (ord); the selected row before
                        \* it (prev); the key and the command it resolved to (key, cmd);
                        \* the part of the screen a pointer event lay in (at)
    trail,              \* directions after the selections of the current column, in a row
    clicks,             \* header clicks on one column, in a row, since no column was selected
    row_height,         \* T::row_height(), the lines one row takes
    views,              \* ViewController::views, bottom first: each view's kind and
                        \* whether it is floating
    visited,            \* the indices of the views the last refresh or draw visited, in order
    status,             \* the StatusLine: its id counter (ids) and its messages (lines),
                        \* each with its id and whether it has a duration (timed)
    shown,              \* the ids StatusLine::show has returned, in order
    lock,               \* the holder of the status line's mutex
    pc                  \* the controller's position inside draw

\* the fields no operation writes after construction
ctrlVars == <<views, visited, status, shown, lock, pc>>
fixedVars == <<data, padding, col_constraints, inner_width, indexed, keymap, row_height, ctrlVars>>
tableState == <<data, padding, col_constraints, inner_width, indexed, keymap, row_height,
                values, rows, header, selected, selected_column, offset, selected_col_ord, area>>
tableVars == <<fixedVars, values, rows, header, selected, selected_column, offset,
               selected_col_ord, area>>
vars == <<tableVars, panic, last, trail, clicks>>

\* selected_value, selected_row, selected_col, rows_count
SelectedValue == IF selected # None /\ selected < Len(values) THEN values[selected + 1] ELSE None
SelectedRow == selected
SelectedCol == selected_column
RowsCount == Len(values)

\* rows_area and header_area (column_names() is Some for the row type)
\* The subtractions are u16 subtractions: they underflow when the padding
\* exceeds the area, and wrap in a build without overflow checks.
RowsAreaUnderflows ==
    \/ area.width < padding.l + padding.r
    \/ area.height < padding.t + padding.b
RowsArea ==
    [x |-> area.x + padding.l,
     y |-> area.y + padding.t,
     width |-> WrapU16(area.width - padding.l - padding.r),
     height |-> WrapU16(area.height - padding.t - padding.b)]
HeaderArea == [x |-> RowsArea.x, y |-> RowsArea.y - 1, width |-> RowsArea.width, height |-> 1]

\* ScreenCoordsToRowIndex counting lines for rows (mutant)
ScreenCoordsToRowIndexInLines(pos) ==
    IF Contains(RowsArea, pos) THEN (pos.y - RowsArea.y) + offset ELSE None

\* screen_coords_to_row_index
ScreenCoordsToRowIndex(pos) ==
    IF Contains(RowsArea, pos) THEN ((pos.y - RowsArea.y) \div row_height) + offset ELSE None

\* Iterator::find over the enumerated slices: the index of the first slice
\* from the i-th on that holds pos, gaps skipped unless any is set
RECURSIVE FindSlice(_, _, _, _)
FindSlice(slices, i, pos, any) ==
    IF i >= Len(slices) THEN None
    ELSE IF (any \/ i % 2 = 0) /\ Contains(slices[i + 1], pos) THEN i
    ELSE FindSlice(slices, i + 1, pos, any)

\* ScreenCoordsToColIndex taking the gaps for columns (mutant)
ScreenCoordsToColIndexAnySlice(pos) ==
    CHOOSE r \in {IF i = None THEN None ELSE i \div 2 :
                    i \in {FindSlice(slices, 0, pos, TRUE) :
                             slices \in {Split(HeaderArea, col_constraints)}}} : TRUE

\* screen_coords_to_col_index: the first even-indexed slice holding pos
ScreenCoordsToColIndex(pos) ==
    CHOOSE r \in {IF i = None THEN None ELSE i \div 2 :
                    i \in {FindSlice(slices, 0, pos, FALSE) :
                             slices \in {Split(HeaderArea, col_constraints)}}} : TRUE

\* ------------------------------------------------------- construction
RowVectors == UNION {[1..n -> DataRows] : n \in 0..MaxRows}

\* build_table, reached through new (ix = FALSE) or new_indexed (ix = TRUE)
\* with a TableState that carries the pre-supplied row selection sel0
BuildTableFields(rs, sel0, ix) ==
    LET d == IF ix THEN IndexedFrom(rs) ELSE rs IN
    /\ indexed = ix
    /\ data = d
    /\ values = [i \in 1..Len(d) |-> Value(d[i], ix)]
    /\ selected = IF sel0 = None THEN None ELSE Clamp(sel0, 0, SaturatingSub(Len(d), 1))
    /\ selected_column = None
    /\ offset = 0
    /\ col_constraints = ColConstraints(d, ix)
    /\ inner_width = InnerWidth(d, ix)
    /\ rows = BuildRows(d, ix)
    /\ header = BuildHeader(None, "Equal", ix)
    /\ padding = [t |-> 1, r |-> 0, b |-> 0, l |-> 0]
    /\ area = DefaultRect
    /\ selected_col_ord = "Equal"
BuildTable(rs, sel0, ix) ==
    /\ BuildTableFields(rs, sel0, ix)
    /\ keymap = TableKeyMapDefault

\* StatusLine::default: the id counter at zero and no message
StatusLineDefault == [ids |-> 0, lines |-> <<>>]

\* ViewController::new
ControllerNew ==
    /\ views = <<>>
    /\ visited = <<>>
    /\ status = StatusLineDefault
    /\ shown = <<>>
    /\ lock = "free"
    /\ pc = "idle"

NoOp(name) ==
    [op |-> name, arg |-> None, from |-> "-", ord |-> "Equal", prev |-> None,
     key |-> "-", cmd |-> "-", at |-> "-"]

Init ==
    /\ \E rs \in RowVectors, sel0 \in {None} \cup 0..MaxIdx, ix \in BOOLEAN :
          BuildTable(rs, sel0, ix)
    /\ row_height = 1
    /\ ControllerNew
    /\ panic = FALSE
    /\ last = NoOp("new")
    /\ trail = <<>>
    /\ clicks = 0

\* ------------------------------------------------------ row selection
\* SelectAbsoluteIdx clamping to the row count instead of the last row (mutant)
SelectAbsoluteIdxToCount(idx) == Clamp(idx, 0, RowsCount)

\* select_absolute: the index clamped to the rows
SelectAbsoluteIdx(idx) == Clamp(idx, 0, SaturatingSub(RowsCount, 1))

\* a row operation recorded with the index or offset given and the row
\* selected before it
RowOp(name, arg) == [NoOp(name) EXCEPT !.arg = arg, !.prev = selected]

\* TableState::select(Some(idx)), recorded as rec
SelectRow(idx, rec) ==
    /\ selected' = idx
    /\ last' = rec
    /\ clicks' = 0
    /\ UNCHANGED <<fixedVars, panic, values, rows, header, selected_column, offset, selected_col_ord, area,
                   trail>>

\* an operation that returns without writing anything, recorded as rec
Ignored(rec) ==
    /\ last' = rec
    /\ clicks' = 0
    /\ UNCHANGED <<tableVars, panic, trail>>

\* an operation that panics, recorded as rec
Panics(rec) ==
    /\ panic' = TRUE
    /\ last' = rec
    /\ clicks' = 0
    /\ UNCHANGED <<tableVars, trail>>

SelectAbsolute(idx) ==
    /\ ~panic
    /\ SelectRow(SelectAbsoluteIdx(idx), [NoOp("select_absolute") EXCEPT !.arg = idx])

\* SelectRelativeNew with a wrapping subtraction (mutant)
SelectRelativeNewWraps(off) ==
    IF selected = None THEN 0
    ELSE IF off < 0 THEN WrappingSub(selected, 0 - off) ELSE selected + off

\* select_relative: the index select_absolute is called with
SelectRelativeNew(off) ==
    IF selected = None THEN 0
    ELSE IF off < 0 THEN SaturatingSub(selected, 0 - off) ELSE selected + off

SelectRelativeIdx(off) == SelectAbsoluteIdx(SelectRelativeNew(off))

SelectRelative(off) ==
    /\ ~panic
    /\ SelectRow(SelectRelativeIdx(off), RowOp("select_relative", off))

\* select_next and select_prev
SelectNext ==
    /\ ~panic
    /\ SelectRow(SelectRelativeIdx(1), RowOp("select_next", None))

SelectPrev ==
    /\ ~panic
    /\ SelectRow(SelectRelativeIdx(-1), RowOp("select_prev", None))

\* --------------------------------------------------- column selection
\* NextOrd with the cycle run the other way round (mutant)
NextOrdAscendingFirst(ord) ==
    CASE ord = "Equal" -> "Less"
      [] ord = "Less" -> "Greater"
      [] ord = "Greater" -> "Equal"

\* NextOrd with the descending step falling back to Equal (mutant)
NextOrdTwoStates(ord) ==
    CASE ord = "Less" -> "Equal"
      [] ord = "Equal" -> "Greater"
      [] ord = "Greater" -> "Equal"

\* the step of the direction cycle taken when the selected column is selected again
NextOrd(ord) ==
    CASE ord = "Less" -> "Equal"
      [] ord = "Equal" -> "Greater"
      [] ord = "Greater" -> "Less"

\* SelectColOrd without the reset on another column (mutant)
SelectColOrdNoReset(old, idx, ord) == IF old # None THEN NextOrd(ord) ELSE "Equal"

\* select_absolute_col: the index clamped, and the direction it leaves
ClampCol(idx) == Clamp(idx, 0, SaturatingSub(Len(col_constraints), 1))
SelectColOrd(old, idx, ord) ==
    IF old # None /\ old # idx THEN "Equal"
    ELSE IF old # None THEN NextOrd(ord)
    ELSE "Equal"

LastN(s, n) == IF Len(s) <= n THEN s ELSE SubSeq(s, Len(s) - n + 1, Len(s))
TrailAfter(old, idx, ord) == IF old = idx THEN LastN(Append(trail, ord), MaxTrail) ELSE <<ord>>
ColOp(name, c) ==
    [NoOp(name) EXCEPT
       !.from = IF selected_column = None THEN "none"
                ELSE IF selected_column = c THEN "same" ELSE "other",
       !.ord = selected_col_ord]

SelectAbsoluteCol(idx) ==
    LET c == ClampCol(idx)
        o == SelectColOrd(selected_column, c, selected_col_ord) IN
    /\ ~panic
    /\ selected_col_ord' = o
    /\ selected_column' = c
    /\ trail' = TrailAfter(selected_column, c, o)
    /\ last' = ColOp("select_absolute_col", c)
    /\ clicks' = 0
    /\ UNCHANGED <<fixedVars, panic, values, rows, header, selected, offset, area>>

\* select_relative_col: the index select_absolute_col is called with (the
\* operation recorded in last is the select_absolute_col it ends in)
SelectRelativeColNew(off) ==
    IF selected_column = None THEN 0
    ELSE IF off < 0 THEN SaturatingSub(selected_column, 0 - off) ELSE selected_column + off

SelectRelativeCol(off) ==
    LET c == ClampCol(SelectRelativeColNew(off))
        o == SelectColOrd(selected_column, c, selected_col_ord) IN
    /\ ~panic
    /\ selected_col_ord' = o
    /\ selected_column' = c
    /\ trail' = TrailAfter(selected_column, c, o)
    /\ last' = ColOp("select_absolute_col", c)
    /\ clicks' = 0
    /\ UNCHANGED <<fixedVars, panic, values, rows, header, selected, offset, area>>

\* ------------------------------------------------------------ sort_rows
\* SortRowsReturns without the test for the ordinal column (mutant)
SortRowsReturnsOnNoneOnly(col) == col = None

\* the early return of sort_rows, and the pairs it sorts otherwise
SortRowsReturns(col) == col = None \/ (indexed /\ col = 0)
SortRowsPairs(col, ord) == SortPairs(Zip(data, values), ord, col, indexed)

Firsts(pairs) == [i \in 1..Len(pairs) |-> pairs[i][1]]
Seconds(pairs) == [i \in 1..Len(pairs) |-> pairs[i][2]]

\* ----------------------------------------------------- pointer events
Positions == [x : 0..(MaxOrigin + inner_width), y : 0..(MaxOrigin + AreaHeight)]

\* Where a pointer position lies on the screen, as recorded in last: outside
\* the drawn rectangle, in the rows, in the header line inside the slice of a
\* column or of a gap between two columns, or elsewhere in the rectangle.
InRect(r, pos) ==
    /\ r.x <= pos.x /\ pos.x - r.x < r.width
    /\ r.y <= pos.y /\ pos.y - r.y < r.height
\* the index, in the interleaved layout, of the first slice holding pos
RECURSIVE SliceFrom(_, _, _)
SliceFrom(slices, i, pos) ==
    IF i >= Len(slices) THEN None
    ELSE IF InRect(slices[i + 1], pos) THEN i
    ELSE SliceFrom(slices, i + 1, pos)
SliceAt(pos) ==
    CHOOSE r \in {SliceFrom(slices, 0, pos) :
                    slices \in {Split(HeaderArea, col_constraints)}} : TRUE
\* the part of the screen pos lies in, with the slice if it is in one
Region(pos) ==
    IF ~InRect(area, pos) THEN <<"outside", None>>
    ELSE IF InRect(RowsArea, pos) THEN <<"row", None>>
    ELSE CHOOSE r \in {IF i = None THEN <<"blank", None>>
                       ELSE IF i % 2 = 0 THEN <<"col", i>> ELSE <<"gap", i>> :
                       i \in {SliceAt(pos)}} : TRUE
PointerOp(rec, pos) ==
    CHOOSE r \in {[rec EXCEPT !.at = reg[1], !.arg = reg[2]] : reg \in {Region(pos)}} : TRUE

\* The arm of update for Down(Left | Right) at a position pos inside the
\* drawn area: a row hit selects the row; otherwise a hit of a column's
\* header slice selects the column and sorts; otherwise nothing is written
\* (the miss is recorded in last if recorded is set, a row hit with the line
\* of the press).
MouseDownInside(pos, recorded) ==
    \E row \in {ScreenCoordsToRowIndex(pos)} :
      IF row # None THEN
          SelectRow(SelectAbsoluteIdx(row), [NoOp("row_click") EXCEPT !.at = "row", !.arg = pos.y])
      ELSE \E hit \in {ScreenCoordsToColIndex(pos)} :
          IF hit # None THEN
              \E c \in {ClampCol(hit)} :
              \E o \in {SelectColOrd(selected_column, c, selected_col_ord)} :
                  /\ selected_col_ord' = o
                  /\ selected_column' = c
                  /\ trail' = TrailAfter(selected_column, c, o)
                  /\ last' = PointerOp(ColOp("header_click", c), pos)
                  /\ clicks' = IF selected_column = None THEN 1
                               ELSE IF clicks >= 1 /\ clicks < MaxClicks
                                       /\ selected_column = c
                                    THEN clicks + 1 ELSE 0
                  /\ IF SortRowsReturns(c)
                     THEN UNCHANGED <<rows, header, values>>
                     ELSE \E sorted \in {SortRowsPairs(c, o)} :
                            /\ rows' = RebuildRows(Firsts(sorted), indexed)
                            /\ header' = BuildHeader(c, o, indexed)
                            /\ values' = Seconds(sorted)
                  /\ UNCHANGED <<fixedVars, panic, selected, offset, area>>
          ELSE IF recorded THEN
              Ignored(PointerOp(NoOp("mouse"), pos))
          ELSE
              UNCHANGED vars

\* update(Event::Mouse) with kind Down(Left | Right) at pos: outside the
\* drawn area nothing happens.
UpdateMouseDown(pos) ==
    /\ ~panic
    /\ IF ~Contains(area, pos) THEN UNCHANGED vars ELSE MouseDownInside(pos, FALSE)

\* ------------------------------------------------------------------ draw
Areas ==
    {[x |-> o, y |-> o, width |-> inner_width, height |-> AreaHeight] : o \in 0..MaxOrigin}

\* The offset the widget leaves after rendering n rows in a viewport that
\* h of them fit in: the selected row is scrolled into view.
RenderOffset(sel, off, n, h) ==
    LET start == Min(off, n - 1)
        end == Min(n, start + h)
        s == Min(sel, n - 1)
    IN IF n = 0 THEN off
       ELSE IF sel = None THEN start
       ELSE IF s >= end THEN s + 1 - h
       ELSE IF s < start THEN s
       ELSE start

\* draw: the area is recorded and the widget rendered with the table's
\* state, which the widget clamps to the rows and columns it renders.
Draw(a) ==
    LET sel == IF Len(rows) = 0 THEN None
               ELSE IF selected # None /\ selected >= Len(rows) THEN Len(rows) - 1
               ELSE selected
        col == IF selected_column # None /\ selected_column >= ColumnCount(indexed)
               THEN ColumnCount(indexed) - 1 ELSE selected_column
    IN
    /\ ~panic
    /\ area' = a
    /\ selected' = sel
    /\ selected_column' = col
    /\ offset' = RenderOffset(sel, offset, Len(rows), Max(0, a.height - 1) \div row_height)
    /\ trail' = IF col = selected_column THEN trail ELSE <<>>
    /\ last' = NoOp("draw")
    /\ UNCHANGED <<fixedVars, panic, values, rows, header, selected_col_ord, clicks>>

\* ----------------------------------------------------------- key events
KeyOp(cmd) == [NoOp("key") EXCEPT !.cmd = cmd, !.prev = selected]

\* update(Event::Key): the command the key map resolves the event to is
\* carried out.  rows_count() - 1 and the subtractions of rows_area
\* underflow on a table without rows and on a table whose area is smaller
\* than its padding: with overflow checks the operation panics, without
\* them the result wraps.
UpdateKey(ev) ==
    LET cmd == GetCommand(keymap, ev)
        rec == KeyOp(cmd)
        h == RowsArea.height
    IN
    /\ ~panic
    /\ \E overflow_checks \in BOOLEAN :
         CASE cmd = "GoDown" -> SelectRow(SelectRelativeIdx(1), rec)
           [] cmd = "GoUp" -> SelectRow(SelectRelativeIdx(-1), rec)
           [] cmd = "GoDownCycle" ->
                IF selected = None THEN Ignored(rec)
                ELSE IF overflow_checks /\ RowsCount = 0 THEN Panics(rec)
                ELSE IF selected = WrappingSub(RowsCount, 1)
                     THEN SelectRow(SelectAbsoluteIdx(0), rec)
                     ELSE SelectRow(SelectRelativeIdx(1), rec)
           [] cmd = "GoUpCycle" ->
                IF selected = None THEN Ignored(rec)
                ELSE IF selected # 0 THEN SelectRow(SelectRelativeIdx(-1), rec)
                ELSE IF overflow_checks /\ RowsCount = 0 THEN Panics(rec)
                ELSE SelectRow(SelectAbsoluteIdx(WrappingSub(RowsCount, 1)), rec)
           [] cmd = "GoPageDown" ->
                IF overflow_checks /\ RowsAreaUnderflows THEN Panics(rec)
                ELSE SelectRow(SelectRelativeIdx(h), rec)
           [] cmd = "GoPageUp" ->
                IF overflow_checks /\ RowsAreaUnderflows THEN Panics(rec)
                ELSE SelectRow(SelectRelativeIdx(0 - h), rec)
           [] cmd = "GoHalfPageDown" ->
                IF overflow_checks /\ RowsAreaUnderflows THEN Panics(rec)
                ELSE SelectRow(SelectRelativeIdx(h \div 2), rec)
           [] OTHER -> Ignored(rec)

\* the kinds of pointer events ("Moved" stands for every kind the code
\* ignores), with the modifiers held where the code looks at them
Modifiers == {{}, {"ALT"}, {"ALT", "SHIFT"}}
MouseEvents ==
    [kind : {"ScrollDown", "ScrollUp"}, modifiers : {{}, {"ALT"}}]
        \cup [kind : {"Down", "Moved"}, modifiers : {{}}]
ScrollEvents == [kind : {"ScrollDown", "ScrollUp"}, modifiers : Modifiers]

\* The modifiers of a scroll event, as recorded in last
Held(modifiers) ==
    IF modifiers = {} THEN "-" ELSE IF modifiers = {"ALT"} THEN "ALT" ELSE "ALT+SHIFT"

\* update(Event::Mouse): events outside the drawn area are ignored; a scroll
\* moves the selection by one row, by two where ALT is the one modifier
\* held (the match is on the whole set of modifiers); a press of the left
\* or right button is MouseDownInside; every other kind is ignored.  (The
\* area of a table without block padding holds no position unless it is at
\* least as high as the header line, so rows_area does not underflow here.)
UpdateMouse(kind, modifiers, pos) ==
    LET d == IF modifiers = {"ALT"} THEN 2 ELSE 1
        off == IF kind = "ScrollDown" THEN d ELSE 0 - d
    IN
    /\ ~panic
    /\ IF ~Contains(area, pos) THEN
           Ignored([NoOp("mouse") EXCEPT !.at = Region(pos)[1]])
       ELSE IF kind \in {"ScrollDown", "ScrollUp"} THEN
           SelectRow(SelectRelativeIdx(off), [NoOp("scroll") EXCEPT !.arg = off, !.at = "inside", !.key = Held(modifiers)])
       ELSE IF kind = "Down" THEN
           MouseDownInside(pos, TRUE)
       ELSE
           Ignored([NoOp("mouse") EXCEPT !.at = "inside"])

\* update with any other event (a resize, a paste, a focus change)
UpdateOther ==
    /\ ~panic
    /\ Ignored(NoOp("other"))

\* ------------------------------------------------------ key map lookups
\* The key maps a lookup is made in: up to MaxShortcuts shortcuts, each of
\* one of two commands bound to none, one or two of the keys "j" and "k".
ShortCuts == [cmd : {"GoDown", "GoUp"}, chords : {<<>>, <<"j">>, <<"k">>, <<"j", "k">>}]
KeyMaps == UNION {[1..n -> ShortCuts] : n \in 0..MaxShortcuts}
LookUpEvents == {"j", "k", "x"}

InitKeyMap ==
    /\ BuildTableFields(<<>>, None, FALSE)
    /\ keymap \in KeyMaps
    /\ row_height = 1
    /\ ControllerNew
    /\ panic = FALSE
    /\ last = NoOp("new")
    /\ trail = <<>>
    /\ clicks = 0

\* get_command(ev) on the key map
LookUp(ev) ==
    /\ last' = [NoOp("get_command") EXCEPT !.key = ev, !.cmd = GetCommand(keymap, ev)]
    /\ UNCHANGED <<tableVars, panic, trail, clicks>>

\* ----------------------------------------------------------- status line
\* StatusId::next that leaves the counter as it is (mutant)
StatusIdSame(id) == id

\* StatusId::next
StatusIdNext(id) == id + 1

\* StatusLine::show: the counter advances and a message with the new id is
\* pushed; the new id is returned
StatusShow(st, timed) ==
    [ids |-> StatusIdNext(st.ids),
     lines |-> Append(st.lines, [id |-> StatusIdNext(st.ids), timed |-> timed])]

\* StatusLine::update: the messages without a duration and those whose
\* duration has not run out are retained; expired holds the ids of those
\* whose duration has (Vec::retain keeps the order of what it retains)
StatusUpdate(st, expired) ==
    [st EXCEPT !.lines = SelectSeq(st.lines, LAMBDA l : ~l.timed \/ l.id \notin expired)]

\* StatusLine::remove
StatusRemove(st, id) == [st EXCEPT !.lines = SelectSeq(st.lines, LAMBDA l : l.id # id)]

\* ------------------------------------------------------ view controller
Kinds == {"a", "b"}
Views == [kind : Kinds, floating : BOOLEAN]

IsRunning == Len(views) > 0

\* Vec::pop
PopViews(vs) == IF Len(vs) = 0 THEN vs ELSE SubSeq(vs, 1, Len(vs) - 1)

\* push that never replaces the top view (mutant)
PushViewsAppending(vs, view) == Append(vs, view)

\* push: a view of the kind of the top view takes its place
PushViews(vs, view) ==
    IF Len(vs) > 0 /\ vs[Len(vs)].kind = view.kind
    THEN Append(PopViews(vs), view)
    ELSE Append(vs, view)

\* The controller is one value behind a mutable reference: an operation
\* on it starts when no other is under way.
Idle == ~panic /\ pc = "idle"

CtrlOp(name) == NoOp(name)

Push(view) ==
    /\ Idle
    /\ Len(PushViews(views, view)) <= MaxViews
    /\ views' = PushViews(views, view)
    /\ last' = [CtrlOp("push") EXCEPT !.prev = Len(views), !.key = view.kind,
                                      !.at = IF view.floating THEN "floating" ELSE "fixed"]
    /\ UNCHANGED <<tableState, panic, trail, clicks, visited, status, shown, lock, pc>>

Pop ==
    /\ Idle
    /\ views' = PopViews(views)
    /\ last' = [CtrlOp("pop") EXCEPT !.prev = Len(views)]
    /\ UNCHANGED <<tableState, panic, trail, clicks, visited, status, shown, lock, pc>>

\* refresh_visible_views and draw_visible_views from the view at idx: whether
\* the walk panics, and the views it visits, in order. A floating view is
\* visited after the walk from the one below it. Below the bottom view
\* idx - 1 underflows: the subtraction panics where overflow is checked,
\* and where it wraps the index is out of the vector's bounds.
RECURSIVE VisibleViews(_, _)
VisibleViews(vs, idx) ==
    IF idx < 0 \/ idx >= Len(vs) THEN [panics |-> TRUE, order |-> <<>>]
    ELSE IF vs[idx + 1].floating
    THEN LET below == VisibleViews(vs, idx - 1)
         IN IF below.panics THEN below ELSE [below EXCEPT !.order = Append(@, idx)]
    ELSE [panics |-> FALSE, order |-> <<idx>>]

\* refresh
Refresh ==
    /\ Idle
    /\ \E walk \in {VisibleViews(views, Len(views) - 1)} :
          /\ panic' = walk.panics
          /\ visited' = walk.order
    /\ last' = CtrlOp("refresh")
    /\ UNCHANGED <<tableState, trail, clicks, views, status, shown, lock, pc>>

\* draw, up to its lock of the status line: the call waits for the mutex
DrawLock ==
    /\ Idle
    /\ lock = "free"
    /\ lock' = "controller"
    /\ pc' = "status"
    /\ last' = CtrlOp("draw_lock")
    /\ UNCHANGED <<tableState, panic, trail, clicks, views, visited, status, shown>>

\* draw that keeps the guard until it returns (mutant)
KeepStatus(holder) == holder

\* drop(status)
DropStatus(holder) == "free"

\* draw, from the layout of the status line to the drop of its guard
DrawStatusLine ==
    /\ ~panic
    /\ pc = "status"
    /\ lock' = DropStatus(lock)
    /\ pc' = "views"
    /\ last' = CtrlOp("draw_status")
    /\ UNCHANGED <<tableState, panic, trail, clicks, views, visited, status, shown>>

\* draw, from the dock to the last view: the visible views are drawn, and a
\* view that shares the status line may lock it while it is drawn
DrawViews ==
    /\ ~panic
    /\ pc = "views"
    /\ \E view_locks \in BOOLEAN, walk \in {VisibleViews(views, Len(views) - 1)} :
          /\ (view_locks /\ ~walk.panics) => lock = "free"
          /\ panic' = walk.panics
          /\ visited' = walk.order
          /\ last' = [CtrlOp("draw") EXCEPT !.at = IF view_locks THEN "locks" ELSE "-"]
    /\ pc' = "idle"
    /\ lock' = IF lock = "controller" THEN "free" ELSE lock
    /\ UNCHANGED <<tableState, trail, clicks, views, status, shown>>

\* Another holder of the shared status line (a view, a thread) locks it
OtherLock ==
    /\ ~panic
    /\ lock = "free"
    /\ lock' = "other"
    /\ last' = CtrlOp("other_lock")
    /\ UNCHANGED <<tableState, panic, trail, clicks, views, visited, status, shown, pc>>

OtherUnlock ==
    /\ ~panic
    /\ lock = "other"
    /\ lock' = "free"
    /\ last' = CtrlOp("other_unlock")
    /\ UNCHANGED <<tableState, panic, trail, clicks, views, visited, status, shown, pc>>

\* show_status, show_status_for (timed) and show_status_always: the status
\* line is locked for the call, a message shown
ShowStatus(timed) ==
    /\ Idle
    /\ lock = "free"
    /\ status.ids < MaxShows
    /\ status' = StatusShow(status, timed)
    /\ shown' = Append(shown, status'.ids)
    /\ last' = [CtrlOp("show") EXCEPT !.arg = status'.ids]
    /\ UNCHANGED <<tableState, panic, trail, clicks, views, visited, lock, pc>>

\* update_status_line: the status line is locked for the call
UpdateStatusLine ==
    /\ Idle
    /\ lock = "free"
    /\ \E expired \in SUBSET {status.lines[i].id : i \in 1..Len(status.lines)} :
          status' = StatusUpdate(status, expired)
    /\ last' = CtrlOp("update_status_line")
    /\ UNCHANGED <<tableState, panic, trail, clicks, views, visited, shown, lock, pc>>

\* status().lock().unwrap().remove(id)
RemoveStatus(id) ==
    /\ Idle
    /\ lock = "free"
    /\ status' = StatusRemove(status, id)
    /\ last' = [CtrlOp("remove") EXCEPT !.arg = id, !.prev = Len(status.lines)]
    /\ UNCHANGED <<tableState, panic, trail, clicks, views, visited, shown, lock, pc>>

\* A controller whose views show no table
InitController ==
    /\ BuildTable(<<>>, None, FALSE)
    /\ row_height = 1
    /\ ControllerNew
    /\ panic = FALSE
    /\ last = NoOp("new")
    /\ trail = <<>>
    /\ clicks = 0

\* -------------------------------------------------------- specification
\* The sorting protocol: column selections, pointer presses and draws.
Next ==
    \/ \E idx \in 0..MaxColIdx : SelectAbsoluteCol(idx)
    \/ \E off \in (0 - MaxOffset)..MaxOffset : SelectRelativeCol(off)
    \/ \E pos \in Positions : UpdateMouseDown(pos)
    \/ \E a \in Areas : Draw(a)

Spec == Init /\ [][Next]_vars

\* Row selection: select_absolute, pointer presses and draws.
NextNav ==
    \/ \E idx \in 0..MaxIdx : SelectAbsolute(idx)
    \/ \E pos \in Positions : UpdateMouseDown(pos)
    \/ \E a \in Areas : Draw(a)

SpecNav == Init /\ [][NextNav]_vars

\* Relative row selection: select_relative, select_next, select_prev and draws.
NextRel ==
    \/ \E off \in (0 - MaxRowOffset)..MaxRowOffset : SelectRelative(off)
    \/ SelectNext
    \/ SelectPrev
    \/ \E a \in Areas : Draw(a)

SpecRel == Init /\ [][NextRel]_vars

\* Keyboard handling: update with key events and with events that are
\* neither key nor pointer events, and draws.
NextKeys ==
    \/ \E ev \in KeyEvents : UpdateKey(ev)
    \/ UpdateOther
    \/ \E a \in Areas : Draw(a)

SpecKeys == Init /\ [][NextKeys]_vars

\* Pointer handling: update with pointer events, and draws.
NextPointer ==
    \/ \E ev \in MouseEvents, pos \in Positions : UpdateMouse(ev.kind, ev.modifiers, pos)
    \/ \E a \in Areas : Draw(a)

SpecPointer == Init /\ [][NextPointer]_vars

\* A table of up to MaxPageRows equal rows of one to MaxRowHeight lines
\* each, drawn in areas of up to MaxPageHeight lines and pressed on in the
\* first column of the screen
PageRows == {[i \in 1..n |-> [name |-> 1, grp |-> 1]] : n \in 0..MaxPageRows}
PageAreas == {[x |-> 0, y |-> 0, width |-> inner_width, height |-> h] : h \in 1..MaxPageHeight}
PagePositions == [x : {0}, y : 0..MaxPageHeight]

InitPage ==
    /\ \E rs \in PageRows, sel0 \in {None} \cup 0..MaxIdx : BuildTable(rs, sel0, FALSE)
    /\ row_height \in 1..MaxRowHeight
    /\ ControllerNew
    /\ panic = FALSE
    /\ last = NoOp("new")
    /\ trail = <<>>
    /\ clicks = 0

\* Keys, button presses and draws on such a table
NextPage ==
    \/ \E ev \in KeyEvents : UpdateKey(ev)
    \/ \E pos \in PagePositions : UpdateMouse("Down", {}, pos)
    \/ \E a \in PageAreas : Draw(a)

SpecPage == InitPage /\ [][NextPage]_vars

\* Scrolls under every set of modifiers, and draws
NextScroll ==
    \/ \E ev \in ScrollEvents, pos \in Positions : UpdateMouse(ev.kind, ev.modifiers, pos)
    \/ \E a \in Areas : Draw(a)

SpecScroll == Init /\ [][NextScroll]_vars

\* Lookups in a key map.
NextKeyMap == \E ev \in LookUpEvents : LookUp(ev)

SpecKeyMap == InitKeyMap /\ [][NextKeyMap]_vars

\* The view stack of a controller, its draw and the status line's mutex
NextViews ==
    \/ \E view \in Views : Push(view)
    \/ Pop
    \/ Refresh
    \/ DrawLock
    \/ DrawStatusLine
    \/ DrawViews
    \/ OtherLock
    \/ OtherUnlock
    \/ \E timed \in BOOLEAN : ShowStatus(timed)
    \/ UpdateStatusLine

SpecViews == InitController /\ [][NextViews]_vars

\* The messages of a status line
NextStatus ==
    \/ \E timed \in BOOLEAN : ShowStatus(timed)
    \/ UpdateStatusLine
    \/ \E id \in 0..MaxShows : RemoveStatus(id)

SpecStatus == InitController /\ [][NextStatus]_vars

TypeOK ==
    /\ panic \in BOOLEAN
    /\ selected \in {None} \cup Nat
    /\ selected_column \in {None} \cup Nat
    /\ selected_col_ord \in Ordering
    /\ Len(values) = Len(data)
    /\ Len(rows) = Len(data)

\* ================================================================ claims
\* The row a displayed row shows: the cells after the ordinal are the
\* content of the row, and the content of a Data row is the row.
RowOfCells(cells, ix) ==
    LET k == IF ix THEN 1 ELSE 0 IN [name |-> cells[k + 1], grp |-> cells[k + 2]]
ShownRows == [i \in 1..Len(rows) |-> RowOfCells(rows[i], indexed)]
\* the column of the wrapped row type a table column stands for
InnerCol(col) == IF indexed THEN col - 1 ELSE col
Sortable(col) == col # None /\ InnerCol(col) \in {0, 1}
ColOps == {"select_absolute_col", "header_click"}

\* ---------------------------------------------------------------- C1
\* C1: after any sequence of header clicks, values[i] is the value() of the
\* row displayed at position i, for every i, and selected_value() is the
\* value of the row displayed at selected_row().
C1_ValuesFollowRows ==
    /\ Len(values) = Len(rows)
    /\ \A i \in 1..Len(rows) : values[i] = DataValue(ShownRows[i])
    /\ (selected # None /\ selected < Len(rows))
          => SelectedValue = DataValue(ShownRows[selected + 1])

\* ---------------------------------------------------------------- C2
\* C2 as stated: every re-selection of the selected column steps the
\* direction along Equal -> Less -> Greater -> Equal.
C2_CycleAscendingFirst ==
    (last.op \in ColOps /\ last.from = "same") =>
        /\ last.ord = "Equal" => selected_col_ord = "Less"
        /\ last.ord = "Less" => selected_col_ord = "Greater"
        /\ last.ord = "Greater" => selected_col_ord = "Equal"

\* C2 amended: every re-selection of the selected column steps the
\* direction along Equal -> Greater -> Less -> Equal.
C2_CycleDescendingFirst ==
    (last.op \in ColOps /\ last.from = "same") =>
        /\ last.ord = "Equal" => selected_col_ord = "Greater"
        /\ last.ord = "Greater" => selected_col_ord = "Less"
        /\ last.ord = "Less" => selected_col_ord = "Equal"

\* a header click on the selected column took the direction from Greater to Less
C2_Witness ==
    /\ last.op = "header_click" /\ last.from = "same"
    /\ last.ord = "Greater" /\ selected_col_ord = "Less"

\* ---------------------------------------------------------------- C3
\* C3: selecting a column other than the selected one, or a first column,
\* leaves the direction Equal whatever it was before.
C3_OtherColumnResets ==
    (last.op \in ColOps /\ last.from \in {"other", "none"}) => selected_col_ord = "Equal"

\* another column was selected while the direction was Greater
C3_Witness ==
    /\ last.op \in ColOps /\ last.from = "other" /\ last.ord = "Greater"
    /\ selected_col_ord = "Equal"

\* ---------------------------------------------------------------- C4
\* C4: from direction Equal, three selections of the selected column in a
\* row end at Equal, and neither the first nor the second of them does.
C4_PeriodThree ==
    \A j \in 1..(Len(trail) - 3) :
        trail[j] = "Equal" =>
            /\ trail[j + 1] # "Equal"
            /\ trail[j + 2] # "Equal"
            /\ trail[j + 3] = "Equal"

\* the selected column was selected three more times after direction Equal
C4_Witness == Len(trail) >= 4 /\ trail[Len(trail) - 3] = "Equal" /\ trail[Len(trail)] = "Equal"

\* ---------------------------------------------------------------- C5
\* orders of the displayed rows under cmp_by_col(_, col) of the row type
Ascending(rs, col) ==
    \A i, j \in 1..Len(rs) : i < j => DataCmpByCol(rs[i], rs[j], col) # "Greater"
Descending(rs, col) ==
    \A i, j \in 1..Len(rs) : i < j => DataCmpByCol(rs[i], rs[j], col) # "Less"
Count(rs, r) == Cardinality({i \in 1..Len(rs) : rs[i] = r})
SameRows(rs, qs) == Len(rs) = Len(qs) /\ \A r \in DataRows : Count(rs, r) = Count(qs, r)

\* C5 as stated: on a non-indexed table with no column selected, the
\* first header click on a sortable column leaves the displayed rows
\* ascending and the second click in a row leaves them descending.
C5_FirstClickAscending ==
    (~indexed /\ Sortable(selected_column)) =>
        /\ clicks = 1 => Ascending(ShownRows, selected_column)
        /\ clicks = 2 => Descending(ShownRows, selected_column)

\* C5 amended: the first header click leaves the displayed rows in the
\* order of the row vector given at construction (direction Equal), the
\* second click in a row leaves them descending, the third ascending.
C5_FirstClickUnsorted ==
    (~indexed /\ Sortable(selected_column) /\ clicks >= 1) =>
        /\ SameRows(ShownRows, data)
        /\ clicks = 1 => (selected_col_ord = "Equal" /\ ShownRows = data)
        /\ clicks = 2 => (selected_col_ord = "Greater" /\ Descending(ShownRows, selected_column))
        /\ clicks = 3 => (selected_col_ord = "Less" /\ Ascending(ShownRows, selected_column))

\* two header clicks in a row on the first column turned rows that were
\* given in ascending order, not all equal, into descending order
C5_Witness ==
    /\ ~indexed /\ clicks = 2 /\ selected_column = 0
    /\ Len(data) >= 2 /\ data[1].name < data[2].name
    /\ ShownRows # data /\ Descending(ShownRows, 0)

\* ---------------------------------------------------------------- C6
\* the (row, value) pairs a header click hands to the sort, and the pairs
\* the table shows afterwards
PairsIn == [i \in 1..Len(data) |-> <<Inner(data[i], indexed), values[i]>>]
PairsOut == [i \in 1..Len(rows) |-> <<ShownRows[i], values[i]>>]
\* the pairs of ps whose rows compare Equal to r under the column
TiedWith(ps, r, col) ==
    LET Tied(p) == DataCmpByCol(p[1], r, col) = "Equal" IN SelectSeq(ps, Tied)

\* C6: a re-sort is stable in both directions: the pairs whose rows
\* compare Equal under the column keep the relative order they had in the
\* sequence handed to the sort, for Less and for Greater.
C6_SortIsStable ==
    [][(/\ last'.op = "header_click"
        /\ selected_col_ord' \in {"Less", "Greater"}
        /\ ~SortRowsReturns(selected_column'))
       => \A r \in DataRows :
             TiedWith(PairsOut', r, InnerCol(selected_column'))
               = TiedWith(PairsIn, r, InnerCol(selected_column'))]_vars

\* a descending sort on the second column left two different rows that
\* tie there in the order of the row vector
C6_Witness ==
    /\ last.op = "header_click" /\ selected_col_ord = "Greater"
    /\ Sortable(selected_column) /\ InnerCol(selected_column) = 1
    /\ Len(rows) >= 2
    /\ ShownRows[1] # ShownRows[2]
    /\ ShownRows[1].grp = ShownRows[2].grp
    /\ ShownRows[1] = Inner(data[1], indexed)
    /\ ShownRows[2] = Inner(data[2], indexed)

\* ---------------------------------------------------------------- C7
\* C7: in an index-wrapped table the ordinal shown in the row at position
\* i is i, after construction and after every re-sort.
C7_OrdinalsAreContiguous ==
    indexed => \A i \in 1..Len(rows) : rows[i][1] = i - 1

\* a header click re-sorted an index-wrapped table into another order than
\* that of the row vector
C7_Witness ==
    /\ indexed /\ last.op = "header_click" /\ selected_col_ord # "Equal"
    /\ Len(rows) >= 2
    /\ ShownRows # [i \in 1..Len(data) |-> Inner(data[i], TRUE)]
    /\ \A i \in 1..Len(rows) : rows[i][1] = i - 1

\* ---------------------------------------------------------------- C8
\* C8: in an index-wrapped table a header click that selects column 0
\* performs no re-sort: the displayed rows with their ordinals and the
\* values are what they were before the click.
C8_OrdinalColumnClickKeepsRows ==
    [][(indexed /\ last'.op = "header_click" /\ selected_column' = 0)
       => (rows' = rows /\ values' = values)]_vars

\* column 0 of an index-wrapped table was clicked while the rows were shown
\* in another order than that of the row vector
C8_Witness ==
    /\ indexed /\ last.op = "header_click" /\ selected_column = 0
    /\ last.from = "other"
    /\ ShownRows # [i \in 1..Len(data) |-> Inner(data[i], TRUE)]

\* ---------------------------------------------------------------- C9
\* C9: in an index-wrapped table the direction is Equal while column 0 is
\* the selected column, however often column 0 is selected again.
C9_OrdinalColumnStaysEqual ==
    (indexed /\ selected_column = 0) => selected_col_ord = "Equal"

\* --------------------------------------------------------------- C10
\* C10: on a table with n >= 1 rows, select_absolute(idx) leaves
\* selected_row() at Some(min(idx, n - 1)).
C10_SelectAbsoluteClamps ==
    (last.op = "select_absolute" /\ RowsCount >= 1)
        => SelectedRow = Min(last.arg, RowsCount - 1)

\* select_absolute was called with an index beyond the last row
C10_Witness ==
    /\ last.op = "select_absolute" /\ RowsCount >= 1
    /\ last.arg > RowsCount - 1 /\ SelectedRow = RowsCount - 1

\* --------------------------------------------------------------- C11
\* C11: for every row count, the GoDownCycle command with the last row
\* selected selects row 0, the GoUpCycle command with row 0 selected selects
\* the last row, and the GoDown command with the last row selected leaves
\* the last row selected.
C11_CycleCommandsWrap ==
    last.op = "key" =>
        /\ (last.cmd = "GoDownCycle" /\ last.prev # None /\ last.prev = RowsCount - 1)
              => (~panic /\ selected = 0)
        /\ (last.cmd = "GoUpCycle" /\ last.prev = 0)
              => (~panic /\ selected # None /\ selected = RowsCount - 1)
        /\ (last.cmd = "GoDown" /\ last.prev # None /\ last.prev = RowsCount - 1)
              => (~panic /\ selected = RowsCount - 1)

\* --------------------------------------------------------------- C12
\* C12: on a table with zero rows and no row selected, select_next() leaves
\* selected_row() at None.
C12_SelectNextOnEmptyIsNoOp ==
    (last.op = "select_next" /\ RowsCount = 0 /\ last.prev = None) => SelectedRow = None

\* --------------------------------------------------------------- C13
\* C13: in every reachable state selected_row(), when it is Some(r),
\* satisfies r < row_count.
C13_SelectedRowInRange == SelectedRow # None => SelectedRow < RowsCount

\* --------------------------------------------------------------- C14
\* C14: in every reachable state selected_col(), when it is Some(c),
\* satisfies c < column_count, the number of columns of the row type.
C14_SelectedColInRange == SelectedCol # None => SelectedCol < ColumnCount(indexed)

\* --------------------------------------------------------------- C15
\* C15: no update call fails: whatever the table and the events, no call
\* panics on an arithmetic underflow.
C15_UpdateNeverFails == ~panic

\* --------------------------------------------------------------- C16
\* the shortcuts of km, by position, whose key list holds ev
Binding(km, ev) == {i \in 1..Len(km) : \E j \in DOMAIN km[i].chords : km[i].chords[j] = ev}

\* C16: get_command(ev) returns the command of the first shortcut, in
\* declaration order, whose key list holds ev, returns none when no
\* shortcut's key list holds it, and leaves the key map as it was.
C16_FirstShortcutWins ==
    [][last'.op = "get_command" =>
         /\ keymap' = keymap
         /\ IF Binding(keymap, last'.key) = {} THEN last'.cmd = "None"
            ELSE \E i \in Binding(keymap, last'.key) :
                    /\ \A j \in Binding(keymap, last'.key) : i <= j
                    /\ last'.cmd = keymap[i].cmd]_vars

\* a key bound by two shortcuts of different commands was looked up and
\* resolved to the command of the earlier one
C16_Witness ==
    /\ last.op = "get_command" /\ Len(keymap) = 2
    /\ Binding(keymap, last.key) = {1, 2}
    /\ keymap[1].cmd # keymap[2].cmd
    /\ last.cmd = keymap[1].cmd

\* --------------------------------------------------------------- C17
PointerOps == {"mouse", "scroll", "row_click", "header_click"}

\* C17: a pointer event, scroll or press, at a position outside the
\* rectangle of the last draw leaves the selected row, the selected column,
\* the sort direction, the displayed rows and the values as they were.
C17_OutsideEventsIgnored ==
    [][(last'.op \in PointerOps /\ last'.at = "outside")
       => UNCHANGED <<selected, selected_column, selected_col_ord, rows, header, values>>]_vars

\* a pointer event fell outside the rectangle of a drawn table that has a
\* row selected and is sorted by a column
C17_Witness ==
    /\ last.op = "mouse" /\ last.at = "outside"
    /\ area.width > 0 /\ area.height > 0
    /\ selected # None /\ selected_column # None /\ selected_col_ord = "Greater"

\* --------------------------------------------------------------- C18
\* C18: with n >= 1 rows and row r selected, select_relative(d) selects row
\* max(0, min(r + d, n - 1)); select_next and select_prev are d = 1 and -1.
C18_SelectRelativeSaturates ==
    (RowsCount >= 1 /\ last.prev # None) =>
        /\ last.op = "select_relative"
              => SelectedRow = Max(0, Min(last.prev + last.arg, RowsCount - 1))
        /\ last.op = "select_next" => SelectedRow = Max(0, Min(last.prev + 1, RowsCount - 1))
        /\ last.op = "select_prev" => SelectedRow = Max(0, Min(last.prev - 1, RowsCount - 1))

\* select_relative moved up by more rows than there are above the selected one
C18_Witness ==
    /\ last.op = "select_relative" /\ RowsCount = 2
    /\ last.prev = 1 /\ last.arg = 0 - 2 /\ SelectedRow = 0

\* --------------------------------------------------------------- C19
\* C19: a table constructed from an empty row vector has zero columns and
\* zero inner width.
C19_EmptyTableHasNoColumns ==
    Len(data) = 0 => (Len(col_constraints) = 0 /\ inner_width = 0)

\* --------------------------------------------------------------- C20
\* C20: a press inside the drawn rectangle that hits no row and lies in the
\* header slice of column k selects column k, steps the direction (to the
\* next of the cycle when k was the selected column, to Equal otherwise)
\* and shows the rows sorted accordingly; the same press in a slice of a gap
\* between two columns changes neither the selected column nor the direction.
C20_HeaderSliceSelectsColumn ==
    [][(last'.op \in PointerOps /\ last'.at \in {"col", "gap"}) =>
         IF last'.at = "gap"
         THEN UNCHANGED <<selected_column, selected_col_ord, rows, header, values>>
         ELSE LET k == last'.arg \div 2 IN
              /\ selected_column' = k
              /\ selected_col_ord' = IF selected_column = k THEN NextOrd(selected_col_ord)
                                     ELSE "Equal"
              /\ (Sortable(k) /\ selected_col_ord' = "Less")
                    => Ascending(ShownRows', InnerCol(k))
              /\ (Sortable(k) /\ selected_col_ord' = "Greater")
                    => Descending(ShownRows', InnerCol(k))]_vars

\* a press in the header slice of the second column, the third slice of the
\* layout, selected it again and left the rows in descending order
C20_Witness ==
    /\ last.op = "header_click" /\ last.at = "col" /\ last.arg = 2
    /\ last.from = "same" /\ selected_column = 1 /\ selected_col_ord = "Greater"
    /\ Len(rows) = 2 /\ ShownRows # Firsts(PairsIn)

\* Whether rectangle r lies inside rectangle a
Within(r, a) ==
    /\ a.x <= r.x /\ r.x + r.width <= a.x + a.width
    /\ a.y <= r.y /\ r.y + r.height <= a.y + a.height

\* C24: for every recorded area, the empty rectangle of a table not drawn
\* yet and areas smaller than the padding included, rows_area and
\* header_area return without arithmetic underflow a rectangle that lies
\* inside the recorded area. (The rows area of a table not drawn yet
\* underflows by the header line.)
C24_AreasLieInsideRecordedArea ==
    /\ ~RowsAreaUnderflows
    /\ Within(RowsArea, area)
    /\ Within(HeaderArea, area)

\* C25: a header click that leaves the direction Equal on a sortable
\* column rebuilds the displayed rows in the order of construction, the
\* order of the row vector the table owns, which no sort reorders.
C25_EqualRestoresConstructionOrder ==
    [][/\ data' = data
       /\ (last'.op = "header_click" /\ Sortable(selected_column')
             /\ selected_col_ord' = "Equal")
          => ShownRows' = [i \in 1..Len(data) |-> Inner(data[i], indexed)]]_vars

\* the click ended an ascending display of rows constructed out of order
C25_Witness ==
    /\ last.op = "header_click" /\ Sortable(selected_column)
    /\ selected_col_ord = "Equal"
    /\ last.ord = "Less"
    /\ \E i \in 1..(Len(data) - 1) :
          CmpByCol(data[i + 1], data[i], selected_column, indexed) = "Less"

\* C23: a scroll inside the drawn rectangle moves the selection by two rows
\* under every combination of modifiers in which ALT is held, and by one
\* row where it is not. (With ALT and SHIFT held it moves by one.)
C23_AltScrollsTwoRows ==
    last.op = "scroll" =>
        last.arg \in (IF last.key \in {"ALT", "ALT+SHIFT"} THEN {-2, 2} ELSE {-1, 1})

\* C21: a button press inside rows_area of a table with n >= 1 rows
\* selects row min(offset + (y - rows_area.y) / row_height, n - 1) and
\* leaves the selected column, the direction and the displayed rows as
\* they were; a press that selects a column lies outside rows_area.
C21_PressSelectsRowUnderPointer ==
    [][/\ (last'.op = "row_click" /\ RowsCount >= 1) =>
            /\ selected' = Min(offset + ((last'.arg - RowsArea.y) \div row_height), RowsCount - 1)
            /\ selected_column' = selected_column
            /\ selected_col_ord' = selected_col_ord
            /\ rows' = rows
       /\ last'.op = "header_click" => last'.at = "col"]_vars

\* a press on the second row shown of a scrolled table of two-line rows
C21_Witness ==
    /\ last.op = "row_click"
    /\ row_height = 2
    /\ offset >= 1
    /\ last.arg - RowsArea.y >= 2
    /\ selected = offset + 1

\* The rows that fit in the viewport
ViewportRows == RowsArea.height \div row_height

\* C22: GoPageDown and GoPageUp move the selection by the number of rows
\* that fit in the viewport, the height of rows_area divided by the row
\* height, and GoHalfPageDown by half that number, saturating at the first
\* and the last row, for every row height. (The code moves by the
\* viewport's lines.)
C22_PageMovesByViewportRows ==
    (last.op = "key" /\ last.prev # None /\ RowsCount >= 1 /\ ~RowsAreaUnderflows) =>
        /\ last.cmd = "GoPageDown" => selected = Min(last.prev + ViewportRows, RowsCount - 1)
        /\ last.cmd = "GoPageUp" => selected = Max(last.prev - ViewportRows, 0)
        /\ last.cmd = "GoHalfPageDown" =>
               selected = Min(last.prev + (ViewportRows \div 2), RowsCount - 1)

\* The kinds of two views next to each other on the stack differ
NoAdjacentKinds(vs) == \A i \in 1..(Len(vs) - 1) : vs[i].kind # vs[i + 1].kind

\* The view a push was given
Pushed(rec) == [kind |-> rec.key, floating |-> rec.at = "floating"]

\* C26: on a stack built by push and pop no two adjacent views have the
\* same kind; a push of the kind of the top view replaces the top view and
\* leaves the depth as it was, any other push makes the stack one deeper,
\* and the pushed view is the new top.
C26_PushReplacesSameKind ==
    [][/\ NoAdjacentKinds(views')
       /\ last'.op = "push" =>
            /\ Len(views') = IF Len(views) > 0 /\ views[Len(views)].kind = last'.key
                             THEN Len(views) ELSE Len(views) + 1
            /\ views'[Len(views')] = Pushed(last')
            /\ SubSeq(views', 1, Len(views') - 1) = SubSeq(views, 1, Len(views') - 1)]_vars
C26_Witness ==
    /\ last.op = "push"
    /\ last.prev = Len(views)
    /\ Len(views) >= 2
    /\ views[Len(views)].floating

\* The views the claim has a walk visit: the topmost view that is not
\* floating, or the bottom one where all are, and the views above it
RECURSIVE Base(_, _)
Base(vs, idx) == IF idx = 0 \/ ~vs[idx + 1].floating THEN idx ELSE Base(vs, idx - 1)
VisibleFromBase(vs) == [i \in 1..(Len(vs) - Base(vs, Len(vs) - 1)) |-> Base(vs, Len(vs) - 1) + i - 1]

\* C27: on every stack of at least one view, whatever the views' floating
\* flags, refresh and draw visit the topmost view that is not floating and
\* the floating views above it, bottom to top, and index no view below the
\* bottom one. (A walk down a stack whose bottom view is floating does.)
C27_WalkStaysOnStack ==
    (last.op \in {"refresh", "draw"} /\ Len(views) > 0) =>
        (~panic /\ visited = VisibleFromBase(views))

\* Whether a sequence of numbers grows from each element to the next
Increasing(ns) == \A i \in 1..(Len(ns) - 1) : ns[i] < ns[i + 1]
Ids(ls) == [i \in 1..Len(ls) |-> ls[i].id]
RECURSIVE Without(_, _)
Without(ls, id) ==
    IF Len(ls) = 0 THEN <<>>
    ELSE IF Head(ls).id = id THEN Without(Tail(ls), id)
    ELSE <<Head(ls)>> \o Without(Tail(ls), id)

\* C28: under show, update and remove the ids of the messages of a status
\* line grow along the list, so no two are the same; the ids show returns
\* grow too, so each differs from the earlier ones; and remove(id) deletes
\* the message of that id only and keeps the others in their order.
C28_IdsGrowAlongTheList ==
    [][/\ Increasing(Ids(status'.lines))
       /\ Increasing(shown')
       /\ last'.op = "show" => /\ last'.arg = shown'[Len(shown')]
                               /\ status'.lines[Len(status'.lines)].id = last'.arg
       /\ last'.op = "remove" => status'.lines = Without(status.lines, last'.arg)]_vars
C28_Witness ==
    /\ last.op = "remove"
    /\ last.prev = Len(status.lines) + 1
    /\ Len(status.lines) >= 2
    /\ status.lines[1].id < last.arg
    /\ last.arg < status.lines[Len(status.lines)].id

\* C29: draw holds the lock of the status line while it lays out and draws
\* the status line and at no other point: the lock is released before the
\* dock and the views are drawn, and no operation of the controller
\* returns with it, so a view or another holder that locks the status
\* line meanwhile is not waiting for the controller's own guard.
C29_LockHeldForStatusLineOnly ==
    /\ pc = "status" <=> lock = "controller"
    /\ (pc = "views" /\ lock = "free") => ENABLED DrawViews
C29_Witness ==
    /\ last.op = "draw"
    /\ last.at = "locks"
    /\ ~panic
    /\ Len(visited) >= 2

\* The commands that move the selection by an offset
RelativeCommands == {"GoDown", "GoUp", "GoPageDown", "GoPageUp", "GoHalfPageDown"}

\* C30: on a table with at least one row and no row selected every relative
\* navigation selects row 0, and the two cycling commands leave the
\* selection empty. (A page command on a table not drawn yet fails in
\* rows_area before it selects.)
C30_NavigationFromNoneSelectsFirst ==
    (last.op = "key" /\ last.prev = None /\ RowsCount >= 1) =>
        /\ last.cmd \in RelativeCommands => (~panic /\ selected = 0)
        /\ last.cmd \in {"GoDownCycle", "GoUpCycle"} => selected = None

====
